---- MODULE Spec2Model ----
(***************************************************************************)
(* A model of tsnsrv (main.go): the command-line configuration and its     *)
(* validation, the bootstrap sequence of validTailnetSrv.run (overlay      *)
(* network connect, main listener, dial function, metrics listener, serve  *)
(* loop), the exits of the process, and the per-request prefix routing and *)
(* downstream dial.                                                        *)
(*                                                                         *)
(* The overlay network library (tsnet), the flag parser and net/http are   *)
(* external: each of their calls is one step whose outcome (success or     *)
(* failure) is chosen nondeterministically.                                *)
(***************************************************************************)
EXTENDS Integers, Sequences, FiniteSets

VARIABLES
    cfg,        \* TailnetSrv: the fields the flags set (main.go:38-55)
    args,       \* root.FlagSet.Args(): the positional arguments
    pc,         \* position of the main goroutine
    res,        \* what tailnetSrvFromArgs returned: (valid, err)
    upAttempted,\* srv.Up was called
    connected,  \* srv.Up returned without error
    binds,      \* every listener bind attempted on the tsnet.Server, in order
    dial,       \* the DialContext function installed in the transport
    metrics,    \* the metrics listener and its serving goroutine
    lastReq,    \* the last request the serve loop handled
    runErr,     \* the error run returned
    exitCode    \* the exit status of the process, -1 while it runs

vars == <<cfg, args, pc, res, upAttempted, connected, binds, dial, metrics,
          lastReq, runErr, exitCode>>

(***************************************************************************)
(* Bounds of the explored inputs.                                          *)
(***************************************************************************)
MaxArgs == 2
MaxPrefixes == 2
MaxPathLen == 3

Range(s) == {s[i] : i \in 1..Len(s)}

SeqsUpTo(S, n) == UNION {[1..k -> S] : k \in 0..n}

(***************************************************************************)
(* Flag values.                                                            *)
(***************************************************************************)
Names == {"", "svc"}
TCPAddrs == {"", "127.0.0.1:8080"}
UnixAddrs == {"", "/run/app.sock"}
\* -listenAddr: the default ":443" and a port the funnel does not support
ListenAddrs == {":443", ":80"}
\* the ports the -listenAddr help text names as supported with -funnel
FunnelPorts == {":443", ":8443", ":10000"}
\* -prometheusAddr: the default, or the empty string that disables it
PrometheusAddrs == {"", ":9099"}

\* positional arguments: one URL url.Parse accepts, one it rejects
GoodURL == "http://dest:80"
BadURL == "http://[::1"
URLs == {GoodURL, BadURL}

\* url.Parse: "http://[::1" has an unterminated IPv6 literal as host
urlParseFails(u) == u = BadURL

(***************************************************************************)
(* Paths and prefixes are sequences of characters.                         *)
(***************************************************************************)
Chars == {"/", "a"}
Paths == {p \in SeqsUpTo(Chars, MaxPathLen) : p # <<>> /\ p[1] = "/"}

PrefixA == <<"/", "a">>
PrefixAA == <<"/", "a", "a">>
PrefixApi == <<"/", "a", "p", "i">>
PathApiV1X == <<"/", "a", "p", "i", "/", "v", "1", "/", "x">>
PathV1X == <<"/", "v", "1", "/", "x">>
PathOther == <<"/", "o", "t", "h", "e", "r">>

PrefixUniverse == {PrefixA, PrefixAA}
AllowLists == SeqsUpTo(PrefixUniverse, MaxPrefixes) \cup {<<PrefixApi>>}
RequestPaths == Paths \cup {PathApiV1X, PathOther}

\* the addresses the transport asks the dial function for
DialAddrs == {"dest:80", "other:80"}

Configs ==
    [Name : Names,
     Funnel : BOOLEAN, FunnelOnly : BOOLEAN, ServePlaintext : BOOLEAN,
     DownstreamTCPAddr : TCPAddrs, DownstreamUnixAddr : UnixAddrs,
     ListenAddr : ListenAddrs, PrometheusAddr : PrometheusAddrs,
     AllowedPrefixes : AllowLists, StripPrefix : BOOLEAN]

(***************************************************************************)
(* TailnetSrv.validate (main.go:100-129).                                  *)
(***************************************************************************)
MsgName == "tsnsrv needs a -name."
MsgFunnelPlaintext == "can not serve plaintext on a funnel service."
MsgDownstream == "can only proxy to one address at a time, pass either -downstreamUnixAddr or -downstreamTCPAddr"
MsgFunnelOnly == "-funnel is required if -funnelOnly is set."
MsgDestURL == "tsnsrv requires a destination URL."
MsgInvalidURL == "invalid destination URL"

errName(s) ==
    IF s.Name = "" THEN <<MsgName>> ELSE <<>>

errFunnelPlaintextAlt(s) ==
    IF s.ServePlaintext /\ s.FunnelOnly THEN <<MsgFunnelPlaintext>> ELSE <<>>

errFunnelPlaintext(s) ==
    IF s.ServePlaintext /\ s.Funnel THEN <<MsgFunnelPlaintext>> ELSE <<>>

errDownstreamAlt(s) ==
    IF s.DownstreamTCPAddr # "" /\ s.DownstreamUnixAddr = ""
    THEN <<MsgDownstream>> ELSE <<>>

errDownstream(s) ==
    IF s.DownstreamTCPAddr # "" /\ s.DownstreamUnixAddr # ""
    THEN <<MsgDownstream>> ELSE <<>>

errFunnelOnlyAlt(s) ==
    IF s.Funnel /\ s.FunnelOnly THEN <<MsgFunnelOnly>> ELSE <<>>

errFunnelOnly(s) ==
    IF ~s.Funnel /\ s.FunnelOnly THEN <<MsgFunnelOnly>> ELSE <<>>

errDestURL(a) ==
    IF Len(a) # 1 THEN <<MsgDestURL>> ELSE <<>>

\* errs as appended by lines 102-117
collectErrs(s, a) ==
    errName(s) \o errFunnelPlaintext(s) \o errDownstream(s)
        \o errFunnelOnly(s) \o errDestURL(a)

validateFirstOnly(s, a) ==
    LET errs == collectErrs(s, a) IN
    IF Len(errs) > 0 THEN [valid |-> FALSE, errs |-> <<Head(errs)>>]
    ELSE IF urlParseFails(a[1]) THEN [valid |-> FALSE, errs |-> <<MsgInvalidURL>>]
    ELSE [valid |-> TRUE, errs |-> <<>>]

\* the pair (valid, err): err is the errors.Join of errs, or the wrapped
\* url.Parse error, or nil (the empty sequence)
validate(s, a) ==
    LET errs == collectErrs(s, a) IN
    IF Len(errs) > 0 THEN [valid |-> FALSE, errs |-> errs]
    ELSE IF urlParseFails(a[1]) THEN [valid |-> FALSE, errs |-> <<MsgInvalidURL>>]
    ELSE [valid |-> TRUE, errs |-> <<>>]

(***************************************************************************)
(* TailnetSrv.listen (main.go:210-222): the one bind call it makes.        *)
(***************************************************************************)
listenCallAlt(s) ==
    IF s.Funnel THEN
        [call |-> "ListenFunnel", addr |-> s.ListenAddr, funnelOnly |-> s.FunnelOnly]
    ELSE IF s.ServePlaintext THEN
        [call |-> "ListenTLS", addr |-> s.ListenAddr, funnelOnly |-> FALSE]
    ELSE
        [call |-> "Listen", addr |-> s.ListenAddr, funnelOnly |-> FALSE]

listenCall(s) ==
    IF s.Funnel THEN
        [call |-> "ListenFunnel", addr |-> s.ListenAddr, funnelOnly |-> s.FunnelOnly]
    ELSE IF ~s.ServePlaintext THEN
        [call |-> "ListenTLS", addr |-> s.ListenAddr, funnelOnly |-> FALSE]
    ELSE
        [call |-> "Listen", addr |-> s.ListenAddr, funnelOnly |-> FALSE]

\* a bind attempt as recorded in binds
Bind(for, c, ok) ==
    [for |-> for, call |-> c.call, addr |-> c.addr, funnelOnly |-> c.funnelOnly,
     ok |-> ok]

(***************************************************************************)
(* The dial function chosen in run (main.go:175-185), and what calling it  *)
(* with (network, address) dials: through the overlay network (srv.Dial)   *)
(* or with a plain net.Dialer.                                             *)
(***************************************************************************)
dialFuncAlt(s) ==
    IF s.DownstreamUnixAddr # "" THEN "unix"
    ELSE IF s.DownstreamTCPAddr # "" THEN "tailnet"
    ELSE "tailnet"

dialFunc(s) ==
    IF s.DownstreamTCPAddr # "" THEN "tcp"
    ELSE IF s.DownstreamUnixAddr # "" THEN "unix"
    ELSE "tailnet"

NoDial == [via |-> "none", network |-> "", address |-> ""]

dialCall(d, s, network, address) ==
    CASE d = "tcp" ->
            [via |-> "srv.Dial", network |-> "tcp", address |-> s.DownstreamTCPAddr]
      [] d = "unix" ->
            [via |-> "net.Dialer", network |-> "unix", address |-> s.DownstreamUnixAddr]
      [] OTHER ->
            [via |-> "srv.Dial", network |-> network, address |-> address]

(***************************************************************************)
(* The prefix router behind s.mux (main.go:190).  The handler itself is    *)
(* not part of main.go; it is modelled from the specification's contract   *)
(* route(path, allowList, stripPrefix) -> Forward(rewrittenPath) | Reject. *)
(***************************************************************************)
hasPrefix(path, p) ==
    Len(p) <= Len(path) /\ SubSeq(path, 1, Len(p)) = p

trimPrefix(path, p) == SubSeq(path, Len(p) + 1, Len(path))

\* the forwarded path keeps a leading slash
wellFormed(path) ==
    IF path = <<>> \/ path[1] # "/" THEN <<"/">> \o path ELSE path

matches(path, allow) == {i \in 1..Len(allow) : hasPrefix(path, allow[i])}

\* the index of the first matching prefix, in declaration order
firstMatch(path, allow) ==
    CHOOSE i \in matches(path, allow) : \A j \in matches(path, allow) : i <= j

lastMatch(path, allow) ==
    CHOOSE i \in matches(path, allow) : \A j \in matches(path, allow) : i >= j

routeLastMatch(path, allow, strip) ==
    IF allow = <<>> THEN [kind |-> "Forward", path |-> path]
    ELSE IF matches(path, allow) = {} THEN [kind |-> "Reject", path |-> <<>>]
    ELSE IF strip THEN
        [kind |-> "Forward",
         path |-> wellFormed(trimPrefix(path, allow[lastMatch(path, allow)]))]
    ELSE [kind |-> "Forward", path |-> path]

route(path, allow, strip) ==
    IF allow = <<>> THEN [kind |-> "Forward", path |-> path]
    ELSE IF matches(path, allow) = {} THEN [kind |-> "Reject", path |-> <<>>]
    ELSE IF strip THEN
        [kind |-> "Forward",
         path |-> wellFormed(trimPrefix(path, allow[firstMatch(path, allow)]))]
    ELSE [kind |-> "Forward", path |-> path]

(***************************************************************************)
(* Initial state: the process has started, os.Args is fixed.               *)
(***************************************************************************)
NoRes == [called |-> FALSE, valid |-> FALSE, errs |-> <<>>]
NoMetrics == "none"
NoReq == [path |-> <<>>, address |-> "", status |-> "none", fwdPath |-> <<>>,
          dialed |-> NoDial]

Init ==
    /\ cfg \in Configs
    /\ args \in SeqsUpTo(URLs, MaxArgs)
    /\ pc = "start"
    /\ res = NoRes
    /\ upAttempted = FALSE
    /\ connected = FALSE
    /\ binds = <<>>
    /\ dial = "unset"
    /\ metrics = NoMetrics
    /\ lastReq = NoReq
    /\ runErr = ""
    /\ exitCode = -1

(***************************************************************************)
(* tailnetSrvFromArgs (main.go:63-98).  The flag set is created with       *)
(* flag.ExitOnError: a flag that does not parse ends the process with      *)
(* status 2 inside root.Parse, -h with status 0.  Otherwise the result of  *)
(* validate is returned.                                                   *)
(***************************************************************************)
tailnetSrvFromArgs ==
    /\ pc = "start"
    /\ \E parse \in {"ok", "badflag", "help"} :
        IF parse = "ok"
        THEN /\ res' = [called |-> TRUE, valid |-> validate(cfg, args).valid,
                      errs |-> validate(cfg, args).errs]
             /\ pc' = "returnedFromArgs"
             /\ UNCHANGED exitCode
        ELSE /\ res' = res
             /\ pc' = "exited"
             /\ exitCode' = IF parse = "help" THEN 0 ELSE 2
    /\ UNCHANGED <<cfg, args, upAttempted, connected, binds, dial, metrics,
                   lastReq, runErr>>

\* main.go:243-245: log.Fatalf prints the errors and the usage, exits 1
mainInvalidUsage ==
    /\ pc = "returnedFromArgs"
    /\ ~res.valid
    /\ pc' = "exited"
    /\ exitCode' = 1
    /\ UNCHANGED <<cfg, args, res, upAttempted, connected, binds, dial, metrics,
                   lastReq, runErr>>

(***************************************************************************)
(* validTailnetSrv.run, main.go:141-163: srv.Up under the timeout.         *)
(***************************************************************************)
MsgConnect == "could not connect to tailnet"
MsgListen == "could not listen"
MsgServing == "while serving"

runUpIgnoringErr ==
    /\ pc = "returnedFromArgs"
    /\ res.valid
    /\ upAttempted' = TRUE
    /\ \E ok \in BOOLEAN :
        /\ connected' = ok
        /\ pc' = "listen"
        /\ UNCHANGED runErr
    /\ UNCHANGED <<cfg, args, res, binds, dial, metrics, lastReq, exitCode>>

runUp ==
    /\ pc = "returnedFromArgs"
    /\ res.valid
    /\ upAttempted' = TRUE
    /\ \E ok \in BOOLEAN :
        /\ connected' = ok
        /\ IF ok THEN pc' = "listen" /\ UNCHANGED runErr
                 ELSE pc' = "runReturned" /\ runErr' = MsgConnect
    /\ UNCHANGED <<cfg, args, res, binds, dial, metrics, lastReq, exitCode>>

(***************************************************************************)
(* run, main.go:164-190: the main listener, then the dial function, the    *)
(* transport and the mux.                                                  *)
(***************************************************************************)
runListen ==
    /\ pc = "listen"
    /\ \E ok \in BOOLEAN :
        /\ binds' = Append(binds, Bind("main", listenCall(cfg), ok))
        /\ IF ok THEN /\ dial' = dialFunc(cfg)
                      /\ pc' = "setupPrometheus"
                      /\ UNCHANGED runErr
                 ELSE /\ pc' = "runReturned"
                      /\ runErr' = MsgListen
                      /\ UNCHANGED dial
    /\ UNCHANGED <<cfg, args, res, upAttempted, connected, metrics, lastReq,
                   exitCode>>

(***************************************************************************)
(* run, main.go:192-207 with setupPrometheus (main.go:224-239): the        *)
(* metrics listener is bound with srv.Listen; a bind error is logged and   *)
(* run goes on to http.Serve on the main listener.  After a successful     *)
(* bind a goroutine serves the metrics.                                    *)
(***************************************************************************)
MetricsCall(s) == [call |-> "Listen", addr |-> s.PrometheusAddr, funnelOnly |-> FALSE]

setupPrometheusFatal ==
    /\ pc = "setupPrometheus"
    /\ IF cfg.PrometheusAddr = ""
       THEN UNCHANGED <<binds, metrics, runErr>> /\ pc' = "serving"
       ELSE \E ok \in BOOLEAN :
            /\ binds' = Append(binds, Bind("metrics", MetricsCall(cfg), ok))
            /\ metrics' = IF ok THEN "serving" ELSE "bindFailed"
            /\ IF ok THEN pc' = "serving" /\ UNCHANGED runErr
                     ELSE pc' = "runReturned" /\ runErr' = "could not listen on prometheus address"
    /\ UNCHANGED <<cfg, args, res, upAttempted, connected, dial, lastReq, exitCode>>

setupPrometheus ==
    /\ pc = "setupPrometheus"
    /\ IF cfg.PrometheusAddr = ""
       THEN UNCHANGED <<binds, metrics>>
       ELSE \E ok \in BOOLEAN :
            /\ binds' = Append(binds, Bind("metrics", MetricsCall(cfg), ok))
            /\ metrics' = IF ok THEN "serving" ELSE "bindFailed"
    /\ pc' = "serving"
    /\ UNCHANGED <<cfg, args, res, upAttempted, connected, dial, lastReq,
                   runErr, exitCode>>

(***************************************************************************)
(* http.Serve(l, mux), main.go:207: one request.  The mux routes the path; *)
(* a forwarded request makes the transport call the dial function.         *)
(***************************************************************************)
handleRequest ==
    /\ pc = "serving"
    /\ \E path \in RequestPaths, address \in DialAddrs :
        LET r == route(path, cfg.AllowedPrefixes, cfg.StripPrefix) IN
        lastReq' =
            IF r.kind = "Forward"
            THEN [path |-> path, address |-> address, status |-> "forwarded",
                  fwdPath |-> r.path,
                  dialed |-> dialCall(dial, cfg, "tcp", address)]
            ELSE [path |-> path, address |-> address, status |-> "forbidden",
                  fwdPath |-> <<>>, dialed |-> NoDial]
    /\ UNCHANGED <<cfg, args, pc, res, upAttempted, connected, binds, dial,
                   metrics, runErr, exitCode>>

\* http.Serve on the main listener returns (always with an error)
serveReturns ==
    /\ pc = "serving"
    /\ pc' = "runReturned"
    /\ runErr' = MsgServing
    /\ UNCHANGED <<cfg, args, res, upAttempted, connected, binds, dial, metrics,
                   lastReq, exitCode>>

\* main.go:246-248: log.Fatal(err) exits 1
mainRunFailed ==
    /\ pc = "runReturned"
    /\ pc' = "exited"
    /\ exitCode' = 1
    /\ UNCHANGED <<cfg, args, res, upAttempted, connected, binds, dial, metrics,
                   lastReq, runErr>>

(***************************************************************************)
(* The metrics goroutine, main.go:234-237: http.Serve on the metrics       *)
(* listener returns, the error is logged and os.Exit(20) ends the process, *)
(* whatever the main goroutine is doing.                                   *)
(***************************************************************************)
metricsServeReturnsExit1 ==
    /\ metrics = "serving"
    /\ pc \in {"serving", "runReturned"}
    /\ metrics' = "stopped"
    /\ pc' = "exited"
    /\ exitCode' = 1
    /\ UNCHANGED <<cfg, args, res, upAttempted, connected, binds, dial, lastReq,
                   runErr>>

metricsServeReturns ==
    /\ metrics = "serving"
    /\ pc \in {"serving", "runReturned"}
    /\ metrics' = "stopped"
    /\ pc' = "exited"
    /\ exitCode' = 20
    /\ UNCHANGED <<cfg, args, res, upAttempted, connected, binds, dial, lastReq,
                   runErr>>

Next ==
    \/ tailnetSrvFromArgs
    \/ mainInvalidUsage
    \/ runUp
    \/ runListen
    \/ setupPrometheus
    \/ handleRequest
    \/ serveReturns
    \/ mainRunFailed
    \/ metricsServeReturns

Spec == Init /\ [][Next]_vars

TypeOK ==
    /\ cfg \in Configs
    /\ pc \in {"start", "returnedFromArgs", "listen", "setupPrometheus",
               "serving", "runReturned", "exited"}
    /\ exitCode \in {-1, 0, 1, 2, 20}
    /\ metrics \in {"none", "serving", "bindFailed", "stopped"}
    /\ dial \in {"unset", "tailnet", "tcp", "unix"}

(***************************************************************************)
(* Properties.                                                             *)
(***************************************************************************)
MainBinds == SelectSeq(binds, LAMBDA b : b.for = "main")
MetricsBinds == SelectSeq(binds, LAMBDA b : b.for = "metrics")
NoNetworkAction == ~upAttempted /\ ~connected /\ binds = <<>>
BeforeRun == pc \in {"start", "returnedFromArgs", "exited"}

\* C1: whenever validate has run on a configuration with both Funnel and
\* ServePlaintext set, it returned no valid configuration and an error that
\* contains the funnel/plaintext combination error, whatever the other
\* flags and the positional arguments are.
C1_FunnelPlaintextRejected ==
    (res.called /\ cfg.Funnel /\ cfg.ServePlaintext) =>
        /\ ~res.valid
        /\ MsgFunnelPlaintext \in Range(res.errs)
        /\ BeforeRun

\* validate ran on an otherwise acceptable configuration with -funnel and
\* -plaintext
C1_Witness ==
    /\ res.called /\ cfg.Funnel /\ cfg.ServePlaintext
    /\ cfg.Name = "svc" /\ args = <<GoodURL>>
    /\ res.errs = <<MsgFunnelPlaintext>>

\* C2: with FunnelOnly set and Funnel not set, validation fails with the
\* error that names the missing -funnel, and the process never enters run:
\* no connection to the overlay network is attempted and no listener, main
\* or metrics, is bound.
C2_FunnelOnlyNeedsFunnel ==
    (cfg.FunnelOnly /\ ~cfg.Funnel) =>
        /\ res.called => ~res.valid /\ MsgFunnelOnly \in Range(res.errs)
        /\ NoNetworkAction
        /\ BeforeRun
        /\ metrics = "none"
        /\ (pc = "exited" /\ res.called) => exitCode = 1

\* main has exited on -funnelOnly without -funnel
C2_Witness ==
    /\ cfg.FunnelOnly /\ ~cfg.Funnel /\ res.called
    /\ res.errs = <<MsgFunnelOnly>>
    /\ pc = "exited"

\* C3: whenever validate has run on a configuration with both downstream
\* overrides set it returned an error and no valid configuration, and a
\* configuration for which run was entered has at most one of them set.
C3_OneDownstreamOverride ==
    /\ (res.called /\ cfg.DownstreamTCPAddr # "" /\ cfg.DownstreamUnixAddr # "") =>
            ~res.valid /\ MsgDownstream \in Range(res.errs)
    /\ ~BeforeRun =>
            (cfg.DownstreamTCPAddr = "" \/ cfg.DownstreamUnixAddr = "")

\* validate ran on a configuration whose only fault is the two overrides
C3_Witness ==
    /\ res.called
    /\ cfg.DownstreamTCPAddr # "" /\ cfg.DownstreamUnixAddr # ""
    /\ res.errs = <<MsgDownstream>>

\* The rules of validate, stated on the configuration.
FlagRuleViolations(s, a) ==
    {m \in {MsgName, MsgFunnelPlaintext, MsgDownstream, MsgFunnelOnly, MsgDestURL} :
        \/ m = MsgName /\ s.Name = ""
        \/ m = MsgFunnelPlaintext /\ s.Funnel /\ s.ServePlaintext
        \/ m = MsgDownstream /\ s.DownstreamTCPAddr # "" /\ s.DownstreamUnixAddr # ""
        \/ m = MsgFunnelOnly /\ s.FunnelOnly /\ ~s.Funnel
        \/ m = MsgDestURL /\ Len(a) # 1}

UnparseableDestURL(a) == Len(a) = 1 /\ urlParseFails(a[1])

\* C4 as stated: the error validate returns has an entry for every violated
\* rule, the unparseable destination URL included.
C4_AllViolationsReported ==
    res.called =>
        /\ FlagRuleViolations(cfg, args) \subseteq Range(res.errs)
        /\ UnparseableDestURL(args) => MsgInvalidURL \in Range(res.errs)

\* C4 (amended): the error validate returns has exactly one entry for every
\* violated rule among missing name, funnel/plaintext, the two downstream
\* overrides, funnelOnly without funnel and the destination URL count; an
\* unparseable destination URL is reported only when none of these rules is
\* violated, and then alone.  The result is produced before any network
\* action.
C4_FlagViolationsReported ==
    res.called =>
        /\ Range(res.errs) =
              IF FlagRuleViolations(cfg, args) # {} THEN FlagRuleViolations(cfg, args)
              ELSE IF UnparseableDestURL(args) THEN {MsgInvalidURL}
              ELSE {}
        /\ Len(res.errs) = Cardinality(Range(res.errs))
        /\ res.valid = (res.errs = <<>>)
        /\ pc = "returnedFromArgs" => NoNetworkAction
        /\ ~res.valid => NoNetworkAction

\* validate ran on a configuration that violates two flag rules and has an
\* unparseable destination URL
C4_Witness ==
    /\ res.called
    /\ cfg.Name = "" /\ cfg.Funnel /\ cfg.ServePlaintext
    /\ args = <<BadURL>>
    /\ res.errs = <<MsgName, MsgFunnelPlaintext>>

\* C5 as stated: a configuration with Funnel set and a ListenAddr other than
\* :443, :8443 and :10000 fails validation, before the overlay network is
\* connected to and before any bind.
C5_FunnelPortValidated ==
    (cfg.Funnel /\ cfg.ListenAddr \notin FunnelPorts) =>
        /\ res.called => ~res.valid
        /\ NoNetworkAction

MainBound == Len(MainBinds) = 1 /\ MainBinds[1].ok
MainBindFailed == Len(MainBinds) = 1 /\ ~MainBinds[1].ok
ConnectFailed == upAttempted /\ ~connected

C7_BootstrapOrdered ==
    /\ binds # <<>> => connected
    /\ connected => upAttempted
    /\ (binds # <<>>) => binds[1].for = "main"
    /\ (MetricsBinds # <<>> \/ metrics # "none" \/ dial # "unset"
            \/ pc \in {"setupPrometheus", "serving"}
            \/ lastReq # NoReq \/ runErr = MsgServing) => MainBound
    /\ ConnectFailed =>
          /\ pc \in {"runReturned", "exited"}
          /\ runErr = MsgConnect
          /\ binds = <<>>
    /\ MainBindFailed =>
          /\ pc \in {"runReturned", "exited"}
          /\ runErr = MsgListen
    /\ (ConnectFailed \/ MainBindFailed) =>
          /\ MetricsBinds = <<>> /\ metrics = "none"
          /\ lastReq = NoReq
          /\ pc = "exited" => exitCode = 1

\* the process has exited because the main listener could not be bound
C7_Witness ==
    /\ pc = "exited" /\ exitCode = 1
    /\ connected /\ MainBindFailed
    /\ runErr = MsgListen
    /\ cfg.PrometheusAddr # ""

\* C8: a failed bind of the metrics listener is only reported: the main
\* listener stays bound and run goes on to serve on it.  When the metrics
\* server stops after a successful bind the process exits with status 20,
\* also while the main serve loop runs; no other failure exits with 20; and
\* with an empty PrometheusAddr no metrics listener is bound.
C8_MetricsFailures ==
    /\ metrics = "bindFailed" =>
          /\ MainBound
          /\ Len(MetricsBinds) = 1 /\ ~MetricsBinds[1].ok
          /\ pc = "serving" \/ runErr = MsgServing
          /\ exitCode \in {-1, 1}
    /\ metrics = "stopped" => pc = "exited" /\ exitCode = 20
    /\ exitCode = 20 =>
          /\ metrics = "stopped"
          /\ Len(MetricsBinds) = 1 /\ MetricsBinds[1].ok
          /\ MainBound
    /\ cfg.PrometheusAddr = "" => MetricsBinds = <<>> /\ metrics = "none"
    /\ \A i \in 1..Len(MetricsBinds) :
          MetricsBinds[i].call = "Listen" /\ MetricsBinds[i].addr = cfg.PrometheusAddr

\* the metrics bind failed and the main service has served a request
C8_Witness ==
    /\ metrics = "bindFailed"
    /\ pc = "serving"
    /\ lastReq.status = "forwarded"

\* the metrics server stopped while the main serve loop was running
C8_WitnessExit20 ==
    exitCode = 20 /\ runErr = "" /\ lastReq.status = "forwarded"

\* C9: every proxied connection is dialed (1) to DownstreamTCPAddr over
\* tcp when it is set, whatever address was asked for, (2) to the unix
\* socket DownstreamUnixAddr with a plain dialer, not the overlay network,
\* when that is set, (3) through the overlay network to the address asked
\* for when neither is set; and the dial function, once installed, is the
\* one the configuration selects.
C9_DialTarget ==
    /\ lastReq.status = "forwarded" =>
          /\ cfg.DownstreamTCPAddr # "" =>
                lastReq.dialed = [via |-> "srv.Dial", network |-> "tcp",
                                  address |-> cfg.DownstreamTCPAddr]
          /\ cfg.DownstreamUnixAddr # "" =>
                lastReq.dialed = [via |-> "net.Dialer", network |-> "unix",
                                  address |-> cfg.DownstreamUnixAddr]
          /\ (cfg.DownstreamTCPAddr = "" /\ cfg.DownstreamUnixAddr = "") =>
                lastReq.dialed = [via |-> "srv.Dial", network |-> "tcp",
                                  address |-> lastReq.address]
    /\ dial # "unset" =>
          /\ (dial = "tcp") = (cfg.DownstreamTCPAddr # "")
          /\ (dial = "unix") = (cfg.DownstreamUnixAddr # "")

\* a request for another address was dialed to the fixed TCP address
C9_Witness ==
    /\ lastReq.status = "forwarded"
    /\ cfg.DownstreamTCPAddr # ""
    /\ lastReq.address = "other:80"
    /\ lastReq.dialed.address = cfg.DownstreamTCPAddr

\* p is a prefix of path, and rest is what follows it
Splits(p, path, rest) == p \o rest = path
Suffixes(path) == {SubSeq(path, k + 1, Len(path)) : k \in 0..Len(path)}
IsPrefixOf(p, path) == \E rest \in Suffixes(path) : Splits(p, path, rest)

\* C10: a request is forwarded only if the allow-list is empty (the path
\* is then forwarded unmodified) or its path starts with a configured
\* prefix; the first matching prefix in declaration order decides, it is
\* removed from the forwarded path when stripPrefix is set (/api/v1/x is
\* forwarded as /v1/x for the prefix /api) and the path is unmodified
\* otherwise.  A path that matches no prefix of a non-empty allow-list is
\* answered as forbidden and nothing is dialed for it.
C10_PrefixRouting ==
    lastReq.status # "none" =>
        LET allow == cfg.AllowedPrefixes
            path == lastReq.path
            matching == {i \in 1..Len(allow) : IsPrefixOf(allow[i], path)}
        IN
        /\ lastReq.status \in {"forwarded", "forbidden"}
        /\ allow = <<>> =>
              lastReq.status = "forwarded" /\ lastReq.fwdPath = path
        /\ (allow # <<>> /\ matching = {}) =>
              /\ lastReq.status = "forbidden"
              /\ lastReq.dialed = NoDial
        /\ matching # {} => lastReq.status = "forwarded"
        /\ (lastReq.status = "forwarded" /\ ~cfg.StripPrefix) =>
              lastReq.fwdPath = path
        /\ (lastReq.status = "forwarded" /\ cfg.StripPrefix /\ allow # <<>>) =>
              \E i \in matching :
                  /\ \A j \in matching : i <= j
                  /\ \E rest \in Suffixes(path) :
                        /\ Splits(allow[i], path, rest)
                        /\ lastReq.fwdPath =
                              IF rest # <<>> /\ rest[1] = "/" THEN rest
                              ELSE <<"/">> \o rest
        /\ lastReq.status = "forwarded" => lastReq.dialed # NoDial
        /\ (allow = <<PrefixApi>> /\ cfg.StripPrefix /\ path = PathApiV1X) =>
              lastReq.fwdPath = PathV1X
        /\ (allow = <<PrefixApi>> /\ path = PathOther) =>
              lastReq.status = "forbidden"

\* /api/v1/x was forwarded as /v1/x under the allow-list /api
C10_Witness ==
    /\ cfg.AllowedPrefixes = <<PrefixApi>> /\ cfg.StripPrefix
    /\ lastReq.path = PathApiV1X
    /\ lastReq.status = "forwarded"
    /\ lastReq.fwdPath = PathV1X

====
